---- MODULE Spec2Model ----
(***************************************************************************)
(* Model of endpoints/OAI/utils/tools.py: ToolCallProcessor, the decoder   *)
(* and encoder of tool calls (from_json, from_xml, dump, to_xml).          *)
(*                                                                         *)
(* A Python str is modelled as a sequence of lexemes: a tag literal of one *)
(* of the regular expressions, a JSON punctuation character, a whitespace  *)
(* character or a word.  json.loads, json.dumps, str.strip and re.findall  *)
(* are modelled lexeme by lexeme.  The inputs never put two words next to  *)
(* each other and close every opened name (see Lexical), so that reading   *)
(* the text lexeme by lexeme agrees with reading it character by character.*)
(*                                                                         *)
(* A Python value (what json.loads returns, what json.dumps takes) is a    *)
(* record [k, v]: k is the Python type and v its content.                  *)
(***************************************************************************)
EXTENDS Integers, Sequences, FiniteSets, TLC

VARIABLES
    op,       \* the entry point the call is made to
    text,     \* the str argument of from_json / from_xml
    calls,    \* the List[ToolCall] argument of dump / to_xml
    format,   \* the format argument of to_xml
    pc,       \* "call" before the entry point ran, "return" after it
    result,   \* what the entry point returned, or the exception it raised
    decoded   \* from_xml applied to the text to_xml returned

vars == <<op, text, calls, format, pc, result, decoded>>

----------------------------------------------------------------------------
(* Lexemes *)

TcOpen == "<tool_call>"
TcClose == "</tool_call>"
FnOpen == "<function="
FnClose == "</function>"
QParamOpen == "<parameter="
ParamClose == "</parameter>"
InvOpen == "<invoke name=\""
InvClose == "</invoke>"
CParamOpen == "<parameter name=\""
Gt == ">"
QuoteGt == "\">"
LBrace == "{"
RBrace == "}"
LBrack == "["
RBrack == "]"
Colon == ":"
Comma == ","
Quote == "\""
Backslash == "\\"
Space == " "
Newline == "\n"

\* str.isspace / the class \s of re / the whitespace json skips
Ws == {Space, Newline}

\* the lexemes with a '>' in them: what [^>]+ stops at
HasGt == {TcOpen, TcClose, FnClose, ParamClose, InvClose, Gt, QuoteGt}

\* the lexemes with a '"' in them: what [^"]+ stops at, what ends a JSON string
HasQuote == {InvOpen, CParamOpen, QuoteGt, Quote}

NumLex == {"1", "2", "3"}
BoolLex == {"true", "false"}
NullLex == "null"

----------------------------------------------------------------------------
(* Python values *)

PyNone == [k |-> "NoneType", v |-> <<>>]
PyStr(s) == [k |-> "str", v |-> s]
PyNum(n) == [k |-> "int", v |-> <<n>>]
PyBool(b) == [k |-> "bool", v |-> <<b>>]
PyList(l) == [k |-> "list", v |-> l]
PyDict(d) == [k |-> "dict", v |-> d]

\* dict: a sequence of [key, val] in insertion order, the keys distinct
HasKey(d, key) == \E i \in 1..Len(d) : d[i].key = key

\* d[key]
GetItem(d, key) == d[CHOOSE i \in 1..Len(d) : d[i].key = key].val

\* d.get(key, default)
DictGet(d, key, default) == IF HasKey(d, key) THEN GetItem(d, key) ELSE default

\* d[key] = val: a key already there keeps its place
SetItem(d, key, val) ==
    IF HasKey(d, key)
    THEN [i \in 1..Len(d) |-> IF d[i].key = key THEN [key |-> key, val |-> val] ELSE d[i]]
    ELSE Append(d, [key |-> key, val |-> val])

\* s[from:] of a sequence
From(s, i) == SubSeq(s, i, Len(s))

RECURSIVE LStrip(_)
\* str.lstrip(): the whitespace at the head removed
LStrip(s) == IF s # <<>> /\ Head(s) \in Ws THEN LStrip(Tail(s)) ELSE s

RECURSIVE RStrip(_)
\* str.rstrip(): the whitespace at the end removed
RStrip(s) ==
    IF s # <<>> /\ s[Len(s)] \in Ws THEN RStrip(SubSeq(s, 1, Len(s) - 1)) ELSE s

\* str.strip()
Strip(s) == RStrip(LStrip(s))

----------------------------------------------------------------------------
(* json.loads *)

BadParse == [ok |-> FALSE, val |-> PyNone, rest |-> <<>>]
Parsed(val, rest) == [ok |-> TRUE, val |-> val, rest |-> rest]

RECURSIVE ScanString(_, _, _)
\* the body of a JSON string from s[i] on, up to its closing quote; acc is the
\* str decoded so far.  A raw newline is a control character; the escapes
\* are \" \\ and \n; any other lexeme after a backslash is an invalid escape.
ScanString(s, i, acc) ==
    IF i > Len(s) THEN BadParse
    ELSE IF s[i] = Quote THEN Parsed(acc, From(s, i + 1))
    ELSE IF s[i] = QuoteGt THEN Parsed(acc, <<Gt>> \o From(s, i + 1))
    ELSE IF s[i] = InvOpen THEN Parsed(acc \o <<"<invoke name=">>, From(s, i + 1))
    ELSE IF s[i] = CParamOpen THEN Parsed(acc \o <<"<parameter name=">>, From(s, i + 1))
    ELSE IF s[i] = Newline THEN BadParse
    ELSE IF s[i] = Backslash
         THEN IF i + 1 > Len(s) THEN BadParse
              ELSE IF s[i + 1] = Quote THEN ScanString(s, i + 2, Append(acc, Quote))
              ELSE IF s[i + 1] = Backslash THEN ScanString(s, i + 2, Append(acc, Backslash))
              ELSE IF s[i + 1] = "n" THEN ScanString(s, i + 2, Append(acc, Newline))
              ELSE IF s[i + 1] = QuoteGt THEN ScanString(s, i + 2, acc \o <<Quote, Gt>>)
              ELSE BadParse
    ELSE ScanString(s, i + 1, Append(acc, s[i]))

\* a JSON string, s[1] being its opening quote
ParseString(s) == ScanString(s, 2, <<>>)

RECURSIVE ParseValue(_)
RECURSIVE ParseElements(_, _, _)
RECURSIVE ParseMembers(_, _, _)

\* the elements of a JSON array after its '['
ParseElements(s, acc, first) ==
    LET t == LStrip(s)
    IN  IF t = <<>> THEN BadParse
        ELSE IF first /\ t[1] = RBrack THEN Parsed(PyList(acc), Tail(t))
        ELSE LET e == ParseValue(t)
                 u == LStrip(e.rest)
             IN  IF ~e.ok \/ u = <<>> THEN BadParse
                 ELSE IF u[1] = Comma THEN ParseElements(Tail(u), Append(acc, e.val), FALSE)
                 ELSE IF u[1] = RBrack THEN Parsed(PyList(Append(acc, e.val)), Tail(u))
                 ELSE BadParse

\* the members of a JSON object after its '{'
ParseMembers(s, acc, first) ==
    LET t == LStrip(s)
    IN  IF t = <<>> THEN BadParse
        ELSE IF first /\ t[1] = RBrace THEN Parsed(PyDict(acc), Tail(t))
        ELSE IF t[1] # Quote THEN BadParse
        ELSE LET key == ParseString(t)
                 u == LStrip(key.rest)
             IN  IF ~key.ok \/ u = <<>> THEN BadParse
                 ELSE IF u[1] # Colon THEN BadParse
                 ELSE LET m == ParseValue(Tail(u))
                          w == LStrip(m.rest)
                      IN  IF ~m.ok \/ w = <<>> THEN BadParse
                          ELSE IF w[1] = Comma
                               THEN ParseMembers(Tail(w), SetItem(acc, key.val, m.val), FALSE)
                          ELSE IF w[1] = RBrace
                               THEN Parsed(PyDict(SetItem(acc, key.val, m.val)), Tail(w))
                          ELSE BadParse

\* one JSON value at the head of s
ParseValue(s) ==
    LET t == LStrip(s)
    IN  IF t = <<>> THEN BadParse
        ELSE IF t[1] = LBrace THEN ParseMembers(Tail(t), <<>>, TRUE)
        ELSE IF t[1] = LBrack THEN ParseElements(Tail(t), <<>>, TRUE)
        ELSE IF t[1] = Quote THEN LET str == ParseString(t)
                                  IN  IF str.ok THEN Parsed(PyStr(str.val), str.rest)
                                      ELSE BadParse
        ELSE IF t[1] = QuoteGt THEN LET str == ParseString(<<Quote, Gt>> \o Tail(t))
                                    IN  IF str.ok THEN Parsed(PyStr(str.val), str.rest)
                                        ELSE BadParse
        ELSE IF t[1] \in NumLex THEN Parsed(PyNum(t[1]), Tail(t))
        ELSE IF t[1] \in BoolLex THEN Parsed(PyBool(t[1]), Tail(t))
        ELSE IF t[1] = NullLex THEN Parsed(PyNone, Tail(t))
        ELSE BadParse

\* json.loads(s): ok is FALSE where it raises json.JSONDecodeError
JsonLoads(s) ==
    LET p == ParseValue(s)
    IN  IF p.ok /\ LStrip(p.rest) = <<>> THEN [ok |-> TRUE, val |-> p.val]
        ELSE [ok |-> FALSE, val |-> PyNone]

----------------------------------------------------------------------------
(* json.dumps *)

RECURSIVE Flatten(_)
\* the concatenation of a sequence of strs
Flatten(ss) == IF ss = <<>> THEN <<>> ELSE Head(ss) \o Flatten(Tail(ss))

RECURSIVE Join(_, _)
\* sep.join(ss)
Join(sep, ss) ==
    IF ss = <<>> THEN <<>>
    ELSE IF Len(ss) = 1 THEN ss[1]
    ELSE ss[1] \o sep \o Join(sep, Tail(ss))

\* json.dumps escapes the quote, the backslash and the newline of a str
EscapeLex(t) ==
    IF t = Quote THEN <<Backslash, Quote>>
    ELSE IF t = Backslash THEN <<Backslash, Backslash>>
    ELSE IF t = Newline THEN <<Backslash, "n">>
    ELSE IF t = QuoteGt THEN <<Backslash, Quote, Gt>>
    ELSE IF t = InvOpen THEN <<"<invoke name=", Backslash, Quote>>
    ELSE IF t = CParamOpen THEN <<"<parameter name=", Backslash, Quote>>
    ELSE <<t>>

Escape(s) == Flatten([i \in 1..Len(s) |-> EscapeLex(s[i])])

DumpsStr(s) == <<Quote>> \o Escape(s) \o <<Quote>>

RECURSIVE JsonDumps(_)
\* json.dumps(val) with the default separators ", " and ": "
JsonDumps(val) ==
    IF val.k = "str" THEN DumpsStr(val.v)
    ELSE IF val.k = "int" THEN val.v
    ELSE IF val.k = "bool" THEN val.v
    ELSE IF val.k = "NoneType" THEN <<NullLex>>
    ELSE IF val.k = "list"
         THEN <<LBrack>>
              \o Join(<<Comma, Space>>, [i \in 1..Len(val.v) |-> JsonDumps(val.v[i])])
              \o <<RBrack>>
    ELSE <<LBrace>>
         \o Join(<<Comma, Space>>,
                 [i \in 1..Len(val.v) |->
                     DumpsStr(val.v[i].key) \o <<Colon, Space>> \o JsonDumps(val.v[i].val)])
         \o <<RBrace>>

----------------------------------------------------------------------------
(* re.findall with re.DOTALL, one operator per pattern of from_xml *)

At(s, i, lex) == i <= Len(s) /\ s[i] = lex

RECURSIVE SkipWs(_, _)
\* the end of \s* started at s[i]: the first index from i on with no whitespace
SkipWs(s, i) == IF i <= Len(s) /\ s[i] \in Ws THEN SkipWs(s, i + 1) ELSE i

RECURSIVE RunEnd(_, _, _)
\* the end of [^c]* started at s[i]: the first index from i on with a c in it
RunEnd(s, i, stops) ==
    IF i <= Len(s) /\ s[i] \notin stops THEN RunEnd(s, i + 1, stops) ELSE i

\* the least element of a non-empty set of indices: where .*? stops
Least(S) == CHOOSE i \in S : \A j \in S : i <= j

NoMatch == [ok |-> FALSE, name |-> <<>>, body |-> <<>>, next |-> 0]
Match(name, body, next) == [ok |-> TRUE, name |-> name, body |-> body, next |-> next]

\* tool_call_pattern = r'<tool_call>\s*(\{.*?\})\s*</tool_call>' matched at s[i]
ToolCallMatchAt(s, i) ==
    IF ~At(s, i, TcOpen) THEN NoMatch
    ELSE LET j == SkipWs(s, i + 1)
             ends == {e \in (j + 1)..Len(s) :
                         s[e] = RBrace /\ At(s, SkipWs(s, e + 1), TcClose)}
         IN  IF ~At(s, j, LBrace) \/ ends = {} THEN NoMatch
             ELSE LET e == Least(ends)
                  IN  Match(<<>>, SubSeq(s, j, e), SkipWs(s, e + 1) + 1)

\* qwen_tool_call_pattern =
\*   r'<tool_call>\s*<function=([^>]+)>(.*?)</function>\s*</tool_call>' matched at s[i]
QwenToolCallMatchAt(s, i) ==
    IF ~At(s, i, TcOpen) THEN NoMatch
    ELSE LET j == SkipWs(s, i + 1)
             n == RunEnd(s, j + 1, HasGt)
             ends == {e \in (n + 1)..Len(s) :
                         s[e] = FnClose /\ At(s, SkipWs(s, e + 1), TcClose)}
         IN  IF ~At(s, j, FnOpen) \/ n = j + 1 \/ ~At(s, n, Gt) \/ ends = {} THEN NoMatch
             ELSE LET e == Least(ends)
                  IN  Match(SubSeq(s, j + 1, n - 1), SubSeq(s, n + 1, e - 1),
                            SkipWs(s, e + 1) + 1)

\* a pattern  open ([^c]+) shut (.*?) close  matched at s[i]
TagMatchAt(s, i, open, stops, shut, close) ==
    IF ~At(s, i, open) THEN NoMatch
    ELSE LET n == RunEnd(s, i + 1, stops)
             ends == {e \in (n + 1)..Len(s) : s[e] = close}
         IN  IF n = i + 1 \/ ~At(s, n, shut) \/ ends = {} THEN NoMatch
             ELSE LET e == Least(ends)
                  IN  Match(SubSeq(s, i + 1, n - 1), SubSeq(s, n + 1, e - 1), e + 1)

\* qwen_param_pattern = r'<parameter=([^>]+)>(.*?)</parameter>'
QwenParamMatchAt(s, i) == TagMatchAt(s, i, QParamOpen, HasGt, Gt, ParamClose)

\* invoke_pattern = r'<invoke name="([^"]+)">(.*?)</invoke>'
InvokeMatchAt(s, i) == TagMatchAt(s, i, InvOpen, HasQuote, QuoteGt, InvClose)

\* param_pattern = r'<parameter name="([^"]+)">(.*?)</parameter>'
ParamMatchAt(s, i) == TagMatchAt(s, i, CParamOpen, HasQuote, QuoteGt, ParamClose)

RECURSIVE FindAll(_, _, _)
\* re.findall: the non-overlapping matches from s[i] on, leftmost first
FindAll(kind, s, i) ==
    IF i > Len(s) THEN <<>>
    ELSE LET m == CASE kind = "tool_call" -> ToolCallMatchAt(s, i)
                    [] kind = "qwen_tool_call" -> QwenToolCallMatchAt(s, i)
                    [] kind = "qwen_param" -> QwenParamMatchAt(s, i)
                    [] kind = "invoke" -> InvokeMatchAt(s, i)
                    [] kind = "param" -> ParamMatchAt(s, i)
         IN  IF m.ok THEN <<m>> \o FindAll(kind, s, m.next)
             ELSE FindAll(kind, s, i + 1)

----------------------------------------------------------------------------
(* ToolCall, the pydantic model of endpoints/OAI/types/tools.py *)

KName == <<"name">>
KArguments == <<"arguments">>
KFunction == <<"function">>

\* ToolCall(**d) validates: function is a mapping, its name and its arguments
\* are there and are strs
ToolCallValid(d) ==
    /\ HasKey(d, KFunction)
    /\ GetItem(d, KFunction).k = "dict"
    /\ LET fn == GetItem(d, KFunction).v
       IN  /\ HasKey(fn, KName) /\ GetItem(fn, KName).k = "str"
           /\ HasKey(fn, KArguments) /\ GetItem(fn, KArguments).k = "str"

\* the ToolCall object (its id, a fresh random string, is left out)
ToolCall(d) ==
    LET fn == GetItem(d, KFunction).v
    IN  [cls |-> "ToolCall",
         function |-> [name |-> GetItem(fn, KName).v,
                       arguments |-> GetItem(fn, KArguments).v]]

\* the dict  {"function": {"name": name, "arguments": arguments}}
ToolCallDict(name, arguments) ==
    << [key |-> KFunction,
        val |-> PyDict(<< [key |-> KName, val |-> name],
                          [key |-> KArguments, val |-> arguments] >>)] >>

\* what an entry point does: return a value or raise; warnings counts the
\* logger.warning calls made
Return(val, warnings) == [ok |-> TRUE, val |-> val, err |-> "", warnings |-> warnings]
Raise(err) == [ok |-> FALSE, val |-> <<>>, err |-> err, warnings |-> 0]
NoResult == [ok |-> FALSE, val |-> <<>>, err |-> "not called", warnings |-> 0]

----------------------------------------------------------------------------
(* ToolCallProcessor.from_xml *)

\* the tool_call_dict built from one embedded JSON object (tool_data is a dict:
\* the capture starts with '{')
EmbeddedDict(tool_data) ==
    LET arguments == DictGet(tool_data, KArguments, PyNone)
    IN  ToolCallDict(DictGet(tool_data, KName, PyNone),
                     IF arguments.k # "str"
                     THEN PyStr(JsonDumps(DictGet(tool_data, KArguments, PyDict(<<>>))))
                     ELSE arguments)

RECURSIVE EmbeddedLoop(_, _, _)
\* for json_str in tool_call_matches: only json.JSONDecodeError is caught
EmbeddedLoop(matches, tool_calls, warnings) ==
    IF matches = <<>> THEN Return(tool_calls, warnings)
    ELSE LET tool_data == JsonLoads(Head(matches).body)
         IN  IF ~tool_data.ok
             THEN EmbeddedLoop(Tail(matches), tool_calls, warnings + 1)
             ELSE LET d == EmbeddedDict(tool_data.val.v)
                  IN  IF ~ToolCallValid(d) THEN Raise("ValidationError")
                      ELSE EmbeddedLoop(Tail(matches), Append(tool_calls, ToolCall(d)),
                                        warnings)

\* parameters[param_name] = json.loads(param_value.strip()), or the stripped
\* str where json.loads raises
Coerce(param_value) ==
    LET stripped == Strip(param_value)
        parsed_value == JsonLoads(stripped)
    IN  IF parsed_value.ok THEN parsed_value.val ELSE PyStr(stripped)

RECURSIVE QwenParametersFirstWins(_, _)
\* QwenParameters, had the insertion been guarded by "if param_name not in parameters"
QwenParametersFirstWins(params, parameters) ==
    IF params = <<>> THEN parameters
    ELSE QwenParametersFirstWins(
             Tail(params),
             IF HasKey(parameters, Head(params).name) THEN parameters
             ELSE SetItem(parameters, Head(params).name, Coerce(Head(params).body)))

RECURSIVE QwenParameters(_, _)
\* for param_name, param_value in params (the Qwen branch)
QwenParameters(params, parameters) ==
    IF params = <<>> THEN parameters
    ELSE QwenParameters(Tail(params),
                        SetItem(parameters, Head(params).name, Coerce(Head(params).body)))

RECURSIVE InvokeParameters(_, _)
\* for param_name, param_value in params (the invoke branch)
InvokeParameters(params, parameters) ==
    IF params = <<>> THEN parameters
    ELSE InvokeParameters(Tail(params),
                          SetItem(parameters, Head(params).name, Coerce(Head(params).body)))

RECURSIVE QwenLoop(_, _)
\* for tool_name, function_body in qwen_matches
QwenLoop(matches, tool_calls) ==
    IF matches = <<>> THEN Return(tool_calls, 0)
    ELSE LET params == FindAll("qwen_param", Head(matches).body, 1)
             d == ToolCallDict(PyStr(Head(matches).name),
                               PyStr(JsonDumps(PyDict(QwenParameters(params, <<>>)))))
         IN  IF ~ToolCallValid(d) THEN Raise("ValidationError")
             ELSE QwenLoop(Tail(matches), Append(tool_calls, ToolCall(d)))

RECURSIVE InvokeLoop(_, _)
\* for tool_name, invoke_body in invocations
InvokeLoop(matches, tool_calls) ==
    IF matches = <<>> THEN Return(tool_calls, 0)
    ELSE LET params == FindAll("param", Head(matches).body, 1)
             d == ToolCallDict(PyStr(Head(matches).name),
                               PyStr(JsonDumps(PyDict(InvokeParameters(params, <<>>)))))
         IN  IF ~ToolCallValid(d) THEN Raise("ValidationError")
             ELSE InvokeLoop(Tail(matches), Append(tool_calls, ToolCall(d)))

\* from_xml, had it run the three conventions one after the other
from_xml_mixed(tool_calls_str) ==
    LET embedded == EmbeddedLoop(FindAll("tool_call", tool_calls_str, 1), <<>>, 0)
        qwen == QwenLoop(FindAll("qwen_tool_call", tool_calls_str, 1), <<>>)
        invoke == InvokeLoop(FindAll("invoke", tool_calls_str, 1), <<>>)
    IN  IF ~embedded.ok THEN embedded
        ELSE Return(embedded.val \o qwen.val \o invoke.val, embedded.warnings)

from_xml(tool_calls_str) ==
    LET tool_call_matches == FindAll("tool_call", tool_calls_str, 1)
        qwen_matches == FindAll("qwen_tool_call", tool_calls_str, 1)
        invocations == FindAll("invoke", tool_calls_str, 1)
    IN  IF tool_call_matches # <<>> THEN EmbeddedLoop(tool_call_matches, <<>>, 0)
        ELSE IF qwen_matches # <<>> THEN QwenLoop(qwen_matches, <<>>)
        ELSE InvokeLoop(invocations, <<>>)

----------------------------------------------------------------------------
(* ToolCallProcessor.from_json *)

\* the flat ("Qwen") format: one object with "name" and "arguments"
FlatDict(parsed) ==
    ToolCallDict(GetItem(parsed, KName),
                 IF GetItem(parsed, KArguments).k = "dict"
                 THEN PyStr(JsonDumps(GetItem(parsed, KArguments)))
                 ELSE GetItem(parsed, KArguments))

\* what tool_call["function"]["arguments"] raises, "" where it raises nothing
SubscriptError(tool_call) ==
    IF tool_call.k # "dict" THEN "TypeError"
    ELSE IF ~HasKey(tool_call.v, KFunction) THEN "KeyError"
    ELSE IF GetItem(tool_call.v, KFunction).k # "dict" THEN "TypeError"
    ELSE IF ~HasKey(GetItem(tool_call.v, KFunction).v, KArguments) THEN "KeyError"
    ELSE ""

\* tool_call["function"]["arguments"] = json.dumps(tool_call["function"]["arguments"])
DumpArguments(tool_call) ==
    LET fn == GetItem(tool_call.v, KFunction).v
    IN  PyDict(SetItem(tool_call.v, KFunction,
                       PyDict(SetItem(fn, KArguments,
                                      PyStr(JsonDumps(GetItem(fn, KArguments)))))))

RECURSIVE ArrayLoopSkipping(_, _)
\* ArrayLoop, had the body of the loop been wrapped in try/except: continue
ArrayLoopSkipping(tool_calls, done) ==
    IF tool_calls = <<>> THEN [err |-> "", val |-> done]
    ELSE IF SubscriptError(Head(tool_calls)) # ""
         THEN ArrayLoopSkipping(Tail(tool_calls), done)
    ELSE ArrayLoopSkipping(Tail(tool_calls), Append(done, DumpArguments(Head(tool_calls))))

RECURSIVE ArrayLoop(_, _)
\* for tool_call in tool_calls: the first element that cannot be subscripted
\* raises; done holds the elements already rewritten
ArrayLoop(tool_calls, done) ==
    IF tool_calls = <<>> THEN [err |-> "", val |-> done]
    ELSE IF SubscriptError(Head(tool_calls)) # ""
         THEN [err |-> SubscriptError(Head(tool_calls)), val |-> <<>>]
    ELSE ArrayLoop(Tail(tool_calls), Append(done, DumpArguments(Head(tool_calls))))

\* [ToolCall(**tool_call) for tool_call in tool_calls]
Construct(tool_calls) ==
    IF \E i \in 1..Len(tool_calls) : ~ToolCallValid(tool_calls[i].v)
    THEN Raise("ValidationError")
    ELSE Return([i \in 1..Len(tool_calls) |-> ToolCall(tool_calls[i].v)], 0)

\* is the parsed value the flat format?
IsFlat(parsed) ==
    parsed.k = "dict" /\ HasKey(parsed.v, KName) /\ HasKey(parsed.v, KArguments)

\* tool_calls = parsed if isinstance(parsed, list) else [parsed]
AsList(parsed) == IF parsed.k = "list" THEN parsed.v ELSE <<parsed>>

from_json(tool_calls_str) ==
    LET parsed == JsonLoads(tool_calls_str)
    IN  IF ~parsed.ok THEN Raise("JSONDecodeError")
        ELSE IF IsFlat(parsed.val)
             THEN LET d == FlatDict(parsed.val.v)
                  IN  IF ToolCallValid(d) THEN Return(<<ToolCall(d)>>, 0)
                      ELSE Raise("ValidationError")
        ELSE LET loop == ArrayLoop(AsList(parsed.val), <<>>)
             IN  IF loop.err # "" THEN Raise(loop.err) ELSE Construct(loop.val)

----------------------------------------------------------------------------
(* ToolCallProcessor.dump *)

\* tool_call_obj.model_dump() (the id left out); an object that is no ToolCall
\* has no model_dump and raises AttributeError
model_dump(tool_call_obj) ==
    PyDict(<< [key |-> KFunction,
               val |-> PyDict(<< [key |-> KName, val |-> PyStr(tool_call_obj.function.name)],
                                 [key |-> KArguments,
                                  val |-> PyStr(tool_call_obj.function.arguments)] >>)],
              [key |-> <<"type">>, val |-> PyStr(<<"function">>)] >>)

\* DumpLoop, had it been the list comprehension the comment warns against
DumpLoopAborting(tool_calls, dumped_tool_calls, warnings) ==
    IF \E i \in 1..Len(tool_calls) : tool_calls[i].cls # "ToolCall"
    THEN Raise("AttributeError")
    ELSE Return([i \in 1..Len(tool_calls) |-> model_dump(tool_calls[i])], 0)

RECURSIVE DumpLoop(_, _, _)
\* for tool_call_obj in tool_calls: AttributeError is caught and logged
DumpLoop(tool_calls, dumped_tool_calls, warnings) ==
    IF tool_calls = <<>> THEN Return(dumped_tool_calls, warnings)
    ELSE IF Head(tool_calls).cls # "ToolCall"
         THEN DumpLoop(Tail(tool_calls), dumped_tool_calls, warnings + 1)
    ELSE DumpLoop(Tail(tool_calls),
                  Append(dumped_tool_calls, model_dump(Head(tool_calls))), warnings)

dump(tool_calls) == DumpLoop(tool_calls, <<>>, 0)

----------------------------------------------------------------------------
(* ToolCallProcessor.to_xml *)

\* value_str: a str verbatim, anything else through json.dumps
ValueStr(param_value) ==
    IF param_value.k = "str" THEN param_value.v ELSE JsonDumps(param_value)

\* the lines of the Qwen block; arguments is a dict
QwenLines(name, arguments) ==
    << <<TcOpen>>, <<FnOpen>> \o name \o <<Gt>> >>
    \o Flatten([i \in 1..Len(arguments) |->
                  << <<QParamOpen>> \o arguments[i].key \o <<Gt>>,
                     ValueStr(arguments[i].val),
                     <<ParamClose>> >>])
    \o << <<FnClose>>, <<TcClose>> >>

\* the lines of the Claude block; arguments is a dict
InvokeLines(name, arguments) ==
    << <<InvOpen>> \o name \o <<QuoteGt>> >>
    \o [i \in 1..Len(arguments) |->
          <<CParamOpen>> \o arguments[i].key \o <<QuoteGt>>
          \o ValueStr(arguments[i].val) \o <<ParamClose>>]
    \o << <<InvClose>> >>

\* XmlPart, had the lines been appended to xml_parts as they are built: the
\* opening line is out before arguments.items() raises
XmlPartPartial(tool_call_obj, fmt) ==
    IF tool_call_obj.cls # "ToolCall" THEN [ok |-> FALSE, part |-> <<>>]
    ELSE LET arguments == JsonLoads(tool_call_obj.function.arguments)
         IN  IF ~arguments.ok THEN [ok |-> FALSE, part |-> <<>>]
             ELSE IF arguments.val.k # "dict"
                  THEN [ok |-> TRUE,
                        part |-> IF fmt = "qwen"
                                 THEN <<TcOpen, Newline, FnOpen>>
                                      \o tool_call_obj.function.name \o <<Gt>>
                                 ELSE <<InvOpen>> \o tool_call_obj.function.name
                                      \o <<QuoteGt>>]
             ELSE [ok |-> TRUE,
                   part |-> Join(<<Newline>>,
                                 IF fmt = "qwen"
                                 THEN QwenLines(tool_call_obj.function.name, arguments.val.v)
                                 ELSE InvokeLines(tool_call_obj.function.name,
                                                  arguments.val.v))]

\* the body of the try of one record: the block it appends to xml_parts, or
\* the exception caught (AttributeError: no .function, or no .items();
\* JSONDecodeError: json.loads)
XmlPart(tool_call_obj, fmt) ==
    IF tool_call_obj.cls # "ToolCall" THEN [ok |-> FALSE, part |-> <<>>]
    ELSE LET arguments == JsonLoads(tool_call_obj.function.arguments)
         IN  IF ~arguments.ok \/ arguments.val.k # "dict" THEN [ok |-> FALSE, part |-> <<>>]
             ELSE [ok |-> TRUE,
                   part |-> Join(<<Newline>>,
                                 IF fmt = "qwen"
                                 THEN QwenLines(tool_call_obj.function.name, arguments.val.v)
                                 ELSE InvokeLines(tool_call_obj.function.name,
                                                  arguments.val.v))]

\* XmlLoop, had the try been around the whole loop: the first failure ends it
XmlLoopBreak(tool_calls, fmt, xml_parts, warnings) ==
    LET bad == {i \in 1..Len(tool_calls) : ~XmlPart(tool_calls[i], fmt).ok}
        n == IF bad = {} THEN Len(tool_calls) ELSE Least(bad) - 1
    IN  Return(Join(<<Newline>>, xml_parts \o [i \in 1..n |-> XmlPart(tool_calls[i], fmt).part]),
               IF bad = {} THEN warnings ELSE warnings + 1)

RECURSIVE XmlLoop(_, _, _, _)
\* for tool_call_obj in tool_calls
XmlLoop(tool_calls, fmt, xml_parts, warnings) ==
    IF tool_calls = <<>> THEN Return(Join(<<Newline>>, xml_parts), warnings)
    ELSE LET p == XmlPart(Head(tool_calls), fmt)
         IN  IF p.ok THEN XmlLoop(Tail(tool_calls), fmt, Append(xml_parts, p.part), warnings)
             ELSE XmlLoop(Tail(tool_calls), fmt, xml_parts, warnings + 1)

to_xml(tool_calls, fmt) ==
    IF tool_calls = <<>> THEN Return(<<>>, 0)
    ELSE XmlLoop(tool_calls, fmt, <<>>, 0)

----------------------------------------------------------------------------
(* The inputs *)

MaxBlocks == 3   \* fragments in a text given to from_xml
MaxParams == 2   \* parameter tags in one block
MaxElems == 3    \* elements in a JSON array given to from_json
MaxCalls == 3    \* records given to dump / to_xml

SeqsUpTo(S, n) == UNION {[1..m -> S] : m \in 0..n}

\* "w" as JSON text
Lit(w) == <<Quote, w, Quote>>

Special ==
    HasGt \cup HasQuote \cup
    {FnOpen, QParamOpen, LBrace, RBrace, LBrack, RBrack, Colon, Comma, Backslash,
     Space, Newline, "<invoke name=", "<parameter name="}

IsWord(lex) == lex \notin Special

\* The texts in which the lexemes are the characters' own reading: no two
\* words touch, a backslash starts an escape the model knows, a '"' and a '>'
\* that touch are the one lexeme '">', and the name opened by '<function=' or
\* '<parameter=' ends at a '>' standing alone.
Lexical(s) ==
    \A i \in 1..Len(s) :
        /\ i < Len(s) =>
              /\ ~(IsWord(s[i]) /\ IsWord(s[i + 1]))
              /\ s[i] = Backslash => s[i + 1] \in {Quote, Backslash, "n"}
              /\ s[i] \in HasQuote \ {QuoteGt} => s[i + 1] # Gt
        /\ s[i] \in {FnOpen, QParamOpen} =>
              LET n == RunEnd(s, i + 1, HasGt) IN n = Len(s) + 1 \/ s[n] = Gt

\* JSON objects as a model writes them inside <tool_call>
JGood == <<LBrace>> \o Lit("name") \o <<Colon, Space>> \o Lit("get") \o <<Comma, Space>>
         \o Lit("arguments") \o <<Colon, Space, LBrace>> \o Lit("x") \o <<Colon, Space, "1">>
         \o <<RBrace, RBrace>>
JStrArgs == <<LBrace>> \o Lit("name") \o <<Colon>> \o Lit("set") \o <<Comma>>
            \o Lit("arguments") \o <<Colon, Quote, LBrace, Backslash, Quote, "y", Backslash,
                                     Quote, Colon, Space, "2", RBrace, Quote, RBrace>>
JRawArgs == <<LBrace>> \o Lit("name") \o <<Colon>> \o Lit("get") \o <<Comma>>
            \o Lit("arguments") \o <<Colon>> \o Lit("hello") \o <<RBrace>>
JBad == <<LBrace>> \o Lit("name") \o <<Colon, Space, "get", RBrace>>
JNoName == <<LBrace>> \o Lit("arguments") \o <<Colon, LBrace, RBrace, RBrace>>
JNoArgs == <<LBrace>> \o Lit("name") \o <<Colon>> \o Lit("set") \o <<RBrace>>
JOpen == <<LBrace>> \o Lit("name") \o <<Colon>> \o Lit("get")

EmbeddedBlock(body) == <<TcOpen>> \o body \o <<TcClose>>

\* one block of the tagged-function convention; params is a sequence of
\* <<name, raw value>>, sep what stands between the tags
QwenBlock(name, params, sep) ==
    <<TcOpen>> \o sep \o <<FnOpen, name, Gt>> \o sep
    \o Flatten([i \in 1..Len(params) |->
                  <<QParamOpen, params[i][1], Gt>> \o sep \o params[i][2] \o sep
                  \o <<ParamClose>> \o sep])
    \o <<FnClose>> \o sep \o <<TcClose>>

\* one block of the invoke convention
InvokeBlock(name, params, sep) ==
    <<InvOpen, name, QuoteGt>> \o sep
    \o Flatten([i \in 1..Len(params) |->
                  <<CParamOpen, params[i][1], QuoteGt>> \o params[i][2]
                  \o <<ParamClose>> \o sep])
    \o <<InvClose>>

ParamNames == {"x", "y"}

\* what stands between <parameter ...> and </parameter>
RawValues ==
    { <<"hello">>,
      <<LBrack, "1", Comma, "2", RBrack>>,
      <<Space, "true", Newline>>,
      Lit("hello"),
      <<>>,
      <<LBrace>> \o Lit("x") \o <<Colon, "1">> }

Fragments ==
    { EmbeddedBlock(JGood),
      EmbeddedBlock(<<Newline>> \o JStrArgs \o <<Newline>>),
      EmbeddedBlock(JRawArgs),
      EmbeddedBlock(JBad),
      EmbeddedBlock(JNoName),
      EmbeddedBlock(JNoArgs),
      EmbeddedBlock(JOpen),
      QwenBlock("get", << <<"x", <<LBrack, "1", RBrack>> >>, <<"y", <<"hello">> >> >>,
                <<Newline>>),
      QwenBlock("set", <<>>, <<>>),
      InvokeBlock("get", << <<"x", <<"1">> >>, <<"x", <<"hello">> >> >>, <<>>),
      InvokeBlock("set", << <<"y", Lit("hello")>> >>, <<Newline>>),
      <<"hello">>,
      <<Newline>> }

\* texts mixing the conventions
MixedTexts == {Flatten(fs) : fs \in SeqsUpTo(Fragments, MaxBlocks)}

\* texts of one block with its parameters
ParamTexts ==
    UNION { { QwenBlock("get", ps, <<Newline>>), InvokeBlock("get", ps, <<>>) } :
            ps \in SeqsUpTo(ParamNames \X RawValues, MaxParams) }

XmlTexts == {s \in MixedTexts \cup ParamTexts : Lexical(s)}

\* the values whose JSON text from_json is given
GoodFunction ==
    PyDict(<< [key |-> KName, val |-> PyStr(<<"get">>)],
              [key |-> KArguments,
               val |-> PyDict(<< [key |-> <<"x">>, val |-> PyNum("1")] >>)] >>)

FunctionValues ==
    { GoodFunction,
      PyDict(<< [key |-> KName, val |-> PyStr(<<"set">>)],
                [key |-> KArguments, val |-> PyStr(<<"hello">>)] >>),
      PyDict(<< [key |-> KName, val |-> PyStr(<<"set">>)],
                [key |-> KArguments, val |-> PyList(<<PyNum("1"), PyNone>>)] >>),
      PyDict(<< [key |-> KName, val |-> PyNum("2")],
                [key |-> KArguments, val |-> PyDict(<<>>)] >>),
      PyDict(<< [key |-> KArguments, val |-> PyDict(<<>>)] >>),
      PyDict(<< [key |-> KName, val |-> PyStr(<<"get">>)] >>),
      PyList(<<>>) }

\* the elements of the array format
ElementValues ==
    { PyDict(<< [key |-> KFunction, val |-> fn] >>) : fn \in FunctionValues }
    \cup { PyDict(<<>>), PyNum("1") }

\* the flat format, whatever its arguments are
FlatValues ==
    { PyDict(<< [key |-> KName, val |-> PyStr(<<"get">>)], [key |-> KArguments, val |-> a] >>) :
      a \in { PyDict(<< [key |-> <<"x">>, val |-> PyNum("1")] >>),
              PyStr(<<LBrace, RBrace>>),
              PyStr(<<"hello">>),
              PyList(<<PyNum("1")>>),
              PyNum("1"),
              PyNone } }

JsonValues ==
    {PyList(es) : es \in SeqsUpTo(ElementValues, MaxElems)}
    \cup ElementValues \cup FlatValues

\* texts json.loads rejects
BadJsonTexts == { <<>>, <<"hello">>, <<LBrack, LBrace, RBrace, Comma, RBrack>>, JBad }

JsonTexts ==
    {s \in {JsonDumps(val) : val \in JsonValues} \cup {JGood, JStrArgs, JRawArgs}
           \cup BadJsonTexts : Lexical(s)}

\* the records given to dump and to_xml: ToolCall objects, and an object that
\* is no ToolCall (it has neither .function nor .model_dump)
Record(name, arguments) ==
    [cls |-> "ToolCall", function |-> [name |-> <<name>>, arguments |-> arguments]]

NotAToolCall == [cls |-> "NoneType", function |-> [name |-> <<>>, arguments |-> <<>>]]

Records ==
    { Record("get", <<LBrace, RBrace>>),
      Record("get", JsonDumps(PyDict(<< [key |-> <<"x">>, val |-> PyNum("1")],
                                        [key |-> <<"y">>, val |-> PyStr(<<"hello">>)] >>))),
      Record("set", JsonDumps(PyDict(<< [key |-> <<"x">>,
                                         val |-> PyList(<<PyNum("1"), PyStr(<<"a">>)>>)] >>))),
      Record("set", JsonDumps(PyDict(<< [key |-> <<"x">>, val |-> PyStr(<<"1">>)] >>))),
      Record("get", JsonDumps(PyDict(<< [key |-> <<"y">>,
                                         val |-> PyStr(<<Space, "hello">>)] >>))),
      Record("get", JsonDumps(PyList(<<PyNum("1")>>))),
      Record("set", <<"2">>),
      Record("set", <<"hello">>),
      NotAToolCall }

CallLists == SeqsUpTo(Records, MaxCalls)

Formats == {"claude", "qwen", "xml"}

----------------------------------------------------------------------------
(* The calls *)

InitFromJson ==
    /\ op = "from_json" /\ text \in JsonTexts
    /\ calls = <<>> /\ format = "claude"
    /\ pc = "call" /\ result = NoResult /\ decoded = NoResult

InitFromXml ==
    /\ op = "from_xml" /\ text \in XmlTexts
    /\ calls = <<>> /\ format = "claude"
    /\ pc = "call" /\ result = NoResult /\ decoded = NoResult

InitDump ==
    /\ op = "dump" /\ text = <<>>
    /\ calls \in CallLists /\ format = "claude"
    /\ pc = "call" /\ result = NoResult /\ decoded = NoResult

InitToXml ==
    /\ op = "to_xml" /\ text = <<>>
    /\ calls \in CallLists /\ format \in Formats
    /\ pc = "call" /\ result = NoResult /\ decoded = NoResult

Init == InitFromJson \/ InitFromXml \/ InitDump \/ InitToXml

FromJson ==
    /\ pc = "call" /\ op = "from_json"
    /\ result' = from_json(text)
    /\ pc' = "return"
    /\ UNCHANGED <<op, text, calls, format, decoded>>

FromXml ==
    /\ pc = "call" /\ op = "from_xml"
    /\ result' = from_xml(text)
    /\ pc' = "return"
    /\ UNCHANGED <<op, text, calls, format, decoded>>

Dump ==
    /\ pc = "call" /\ op = "dump"
    /\ result' = dump(calls)
    /\ pc' = "return"
    /\ UNCHANGED <<op, text, calls, format, decoded>>

ToXml ==
    /\ pc = "call" /\ op = "to_xml"
    /\ result' = to_xml(calls, format)
    /\ pc' = "return"
    /\ UNCHANGED <<op, text, calls, format, decoded>>

\* the text to_xml returned, given to from_xml
Decode ==
    /\ pc = "return" /\ op = "to_xml" /\ result.ok
    /\ decoded' = from_xml(result.val)
    /\ pc' = "decoded"
    /\ UNCHANGED <<op, text, calls, format, result>>

NextToXml == ToXml \/ Decode

Next == FromJson \/ FromXml \/ Dump \/ ToXml \/ Decode

SpecFromJson == InitFromJson /\ [][FromJson]_vars
SpecFromXml == InitFromXml /\ [][FromXml]_vars
SpecDump == InitDump /\ [][Dump]_vars
SpecToXml == InitToXml /\ [][NextToXml]_vars
Spec == Init /\ [][Next]_vars

SpecDecode == (InitFromJson \/ InitFromXml) /\ [][FromJson \/ FromXml]_vars

----------------------------------------------------------------------------
(* The properties *)

Returned == pc # "call"

\* function.arguments of a record is valid JSON text
ValidArguments(tool_call) == JsonLoads(tool_call.function.arguments).ok

\* the value function.arguments stands for
ArgumentsOf(tool_call) == JsonLoads(tool_call.function.arguments).val

RECURSIVE SameJson(_, _)
\* two parsed JSON values are the same value (the order of the keys apart)
SameJson(a, b) ==
    /\ a.k = b.k
    /\ IF a.k = "dict"
       THEN /\ Len(a.v) = Len(b.v)
            /\ \A i \in 1..Len(a.v) :
                  /\ HasKey(b.v, a.v[i].key)
                  /\ SameJson(a.v[i].val, GetItem(b.v, a.v[i].key))
       ELSE IF a.k = "list"
       THEN /\ Len(a.v) = Len(b.v)
            /\ \A i \in 1..Len(a.v) : SameJson(a.v[i], b.v[i])
       ELSE a.v = b.v

\* C1: whenever from_json or from_xml returns normally, function.arguments of
\* every returned record is valid JSON text.
C1_ArgumentsValidJson ==
    (Returned /\ op \in {"from_json", "from_xml"} /\ result.ok) =>
        \A i \in 1..Len(result.val) : ValidArguments(result.val[i])

\* a record to_xml renders: a ToolCall whose arguments are a JSON object
Renders(tool_call_obj) ==
    /\ tool_call_obj.cls = "ToolCall"
    /\ ValidArguments(tool_call_obj)
    /\ ArgumentsOf(tool_call_obj).k = "dict"

\* C2: from_xml(to_xml(R, "claude")) and from_xml(to_xml(R, "qwen")) have the
\* length of R, and their i-th record has the name and the parsed arguments
\* of the i-th record of R.  Stated for the R whose arguments are all JSON
\* objects, the least the claim covers.
C2_RoundTrip ==
    (pc = "decoded" /\ format \in {"claude", "qwen"}
     /\ \A i \in 1..Len(calls) : Renders(calls[i])) =>
        /\ decoded.ok
        /\ Len(decoded.val) = Len(calls)
        /\ \A i \in 1..Len(calls) :
              /\ decoded.val[i].function.name = calls[i].function.name
              /\ ValidArguments(decoded.val[i])
              /\ SameJson(ArgumentsOf(decoded.val[i]), ArgumentsOf(calls[i]))

\* C3: from_xml raises nothing, whatever the text.
C3_FromXmlNeverFails == (Returned /\ op = "from_xml") => result.ok

\* the captures of the embedded-JSON pattern json.loads accepts
ParsesAsJson(m) == JsonLoads(m.body).ok

\* C4: of the n matches of the embedded-JSON pattern, k of which json.loads
\* rejects, from_xml returns n - k records.
C4_PerBlockRecovery ==
    (Returned /\ op = "from_xml" /\ FindAll("tool_call", text, 1) # <<>>) =>
        /\ result.ok
        /\ Len(result.val) = Len(SelectSeq(FindAll("tool_call", text, 1), ParsesAsJson))

\* the records one convention alone decodes from the text
EmbeddedRecords(s) ==
    LET good == SelectSeq(FindAll("tool_call", s, 1), ParsesAsJson)
    IN  {ToolCall(EmbeddedDict(JsonLoads(good[i].body).val.v)) : i \in 1..Len(good)}

QwenRecords(s) ==
    LET ms == FindAll("qwen_tool_call", s, 1)
    IN  {QwenLoop(<<ms[i]>>, <<>>).val[1] : i \in 1..Len(ms)}

InvokeRecords(s) ==
    LET ms == FindAll("invoke", s, 1)
    IN  {InvokeLoop(<<ms[i]>>, <<>>).val[1] : i \in 1..Len(ms)}

\* C5: every record from_xml returns comes from the first convention, in the
\* order embedded JSON, tagged function, invoke, that matches anywhere in the
\* text; a text whose embedded-JSON blocks all fail to parse gives no record.
C5_ConventionPriority ==
    (Returned /\ op = "from_xml" /\ result.ok) =>
        LET got == {result.val[i] : i \in 1..Len(result.val)}
        IN  IF FindAll("tool_call", text, 1) # <<>> THEN got \subseteq EmbeddedRecords(text)
            ELSE IF FindAll("qwen_tool_call", text, 1) # <<>> THEN got \subseteq QwenRecords(text)
            ELSE got \subseteq InvokeRecords(text)

\* a text with an embedded-JSON block and an invoke block that decode to
\* different records, decoded to the embedded one
C5_Witness ==
    /\ Returned /\ op = "from_xml" /\ result.ok /\ result.val # <<>>
    /\ FindAll("tool_call", text, 1) # <<>>
    /\ InvokeRecords(text) # {}
    /\ InvokeRecords(text) \cap EmbeddedRecords(text) = {}

\* an element of the array format lacks "function", "name" or "arguments"
LacksField(tool_call) ==
    \/ tool_call.k # "dict"
    \/ ~HasKey(tool_call.v, KFunction)
    \/ GetItem(tool_call.v, KFunction).k # "dict"
    \/ ~HasKey(GetItem(tool_call.v, KFunction).v, KName)
    \/ ~HasKey(GetItem(tool_call.v, KFunction).v, KArguments)

\* C6: on an input that is not the flat format, from_json either returns one
\* record per element, in order (the name of the element, its arguments
\* through json.dumps), or raises; it raises when the text is no JSON and
\* when an element lacks "function", "name" or "arguments".
C6_AllOrNothing ==
    (Returned /\ op = "from_json") =>
        LET parsed == JsonLoads(text)
            elems == AsList(parsed.val)
        IN  /\ ~parsed.ok => (~result.ok /\ result.err = "JSONDecodeError")
            /\ (parsed.ok /\ ~IsFlat(parsed.val)) =>
                  /\ (\E i \in 1..Len(elems) : LacksField(elems[i])) => ~result.ok
                  /\ ~result.ok => result.err \in {"KeyError", "TypeError", "ValidationError"}
                  /\ result.ok =>
                        /\ Len(result.val) = Len(elems)
                        /\ \A i \in 1..Len(elems) :
                              LET fn == GetItem(elems[i].v, KFunction).v
                              IN  /\ result.val[i].function.name = GetItem(fn, KName).v
                                  /\ result.val[i].function.arguments
                                         = JsonDumps(GetItem(fn, KArguments))

\* an array of two elements decoded to two records
C6_Witness ==
    /\ Returned /\ op = "from_json" /\ result.ok
    /\ JsonLoads(text).val.k = "list"
    /\ Len(result.val) = 2
    /\ result.val[1] # result.val[2]

\* C7 as the spec states it: to_xml returns "" if and only if the input is empty.
C7_EmptyIffNoInput ==
    (Returned /\ op = "to_xml") => (result.ok /\ (result.val = <<>> <=> calls = <<>>))

\* C7, amended: to_xml returns "" if and only if no record of the input
\* renders (the input is empty, or every record of it fails).
C7_EmptyIffNothingRenders ==
    (Returned /\ op = "to_xml") =>
        /\ result.ok
        /\ result.val = <<>> <=> (\A i \in 1..Len(calls) : ~Renders(calls[i]))

\* a record that fails before one that renders: the text is not empty
C7_Witness ==
    /\ Returned /\ op = "to_xml" /\ Len(calls) = 2
    /\ ~Renders(calls[1]) /\ Renders(calls[2])
    /\ result.val # <<>>

\* model_dump of the records that have one
Convertible(tool_call_obj) == tool_call_obj.cls = "ToolCall"

\* C8: dump returns the mappings of the convertible records, in input order,
\* and nothing else: its length is that of the input less the unconvertible.
C8_DumpBestEffort ==
    (Returned /\ op = "dump") =>
        LET good == SelectSeq(calls, Convertible)
        IN  /\ result.ok
            /\ Len(result.val) = Len(calls) - Cardinality({i \in 1..Len(calls) :
                                                             ~Convertible(calls[i])})
            /\ result.val = [i \in 1..Len(good) |-> model_dump(good[i])]
            /\ result.warnings = Len(calls) - Len(good)

\* an unconvertible record before a convertible one
C8_Witness ==
    /\ Returned /\ op = "dump" /\ Len(calls) = 2
    /\ ~Convertible(calls[1]) /\ Convertible(calls[2])
    /\ Len(result.val) = 1

\* the number of times a lexeme stands in a text
Count(s, lex) == Cardinality({i \in 1..Len(s) : s[i] = lex})

\* one whole block of the format
CompleteBlock(b, fmt) ==
    IF fmt = "qwen"
    THEN /\ b[1] = TcOpen /\ b[Len(b)] = TcClose
         /\ Count(b, TcOpen) = 1 /\ Count(b, TcClose) = 1
         /\ Count(b, FnOpen) = 1 /\ Count(b, FnClose) = 1
         /\ Count(b, QParamOpen) = Count(b, ParamClose)
    ELSE /\ b[1] = InvOpen /\ b[Len(b)] = InvClose
         /\ Count(b, InvOpen) = 1 /\ Count(b, InvClose) = 1
         /\ Count(b, CParamOpen) = Count(b, ParamClose)

\* C9: to_xml returns normally; its text is the blocks of the records that
\* render, each whole, in input order, joined by one newline; a record that
\* does not render leaves nothing in it.
C9_FailuresContained ==
    (Returned /\ op = "to_xml") =>
        LET good == SelectSeq(calls, Renders)
            block == [i \in 1..Len(good) |-> to_xml(<<good[i]>>, format).val]
        IN  /\ result.ok
            /\ result.val = Join(<<Newline>>, block)
            /\ \A i \in 1..Len(good) : CompleteBlock(block[i], format)
            /\ result.warnings = Len(calls) - Len(good)

\* two records, one of which does not render
C9_Witness ==
    /\ Returned /\ op = "to_xml" /\ Len(calls) = 2
    /\ Renders(calls[1]) /\ ~Renders(calls[2]) /\ calls[2].cls = "ToolCall"
    /\ result.val # <<>>

\* the value a parameter's content decodes to: the trimmed content as JSON,
\* the trimmed content itself where it is no JSON
Expected(content) ==
    IF JsonLoads(Strip(content)).ok THEN JsonLoads(Strip(content)).val
    ELSE PyStr(Strip(content))

\* the arguments of a block agree with its parameter tags: one key per name,
\* its value that of the last tag of the name
LastWins(arguments, params) ==
    /\ arguments.k = "dict"
    /\ Len(arguments.v) = Cardinality({params[j].name : j \in 1..Len(params)})
    /\ \A j \in 1..Len(params) :
          /\ HasKey(arguments.v, params[j].name)
          /\ (\A l \in (j + 1)..Len(params) : params[l].name # params[j].name) =>
                GetItem(arguments.v, params[j].name) = Expected(params[j].body)

\* C10: in the tagged-function and in the invoke convention the arguments of
\* every block hold one key per distinct parameter name, whose value is the
\* coercion of the last occurrence of the name.
C10_LastOccurrenceCoerced ==
    (Returned /\ op = "from_xml" /\ FindAll("tool_call", text, 1) = <<>>) =>
        LET qwen == FindAll("qwen_tool_call", text, 1)
            invoke == FindAll("invoke", text, 1)
        IN  /\ result.ok
            /\ IF qwen # <<>>
               THEN /\ Len(result.val) = Len(qwen)
                    /\ \A i \in 1..Len(qwen) :
                          /\ ValidArguments(result.val[i])
                          /\ LastWins(ArgumentsOf(result.val[i]),
                                      FindAll("qwen_param", qwen[i].body, 1))
               ELSE /\ Len(result.val) = Len(invoke)
                    /\ \A i \in 1..Len(invoke) :
                          /\ ValidArguments(result.val[i])
                          /\ LastWins(ArgumentsOf(result.val[i]),
                                      FindAll("param", invoke[i].body, 1))

\* a tagged-function block naming a parameter twice, first as JSON and then
\* as no JSON: the value is the str
C10_Witness ==
    /\ Returned /\ op = "from_xml" /\ result.ok /\ Len(result.val) = 1
    /\ LET qwen == FindAll("qwen_tool_call", text, 1)
       IN  /\ Len(qwen) = 1
           /\ LET params == FindAll("qwen_param", qwen[1].body, 1)
              IN  /\ Len(params) = 2
                  /\ params[1].name = params[2].name
                  /\ Expected(params[1].body).k = "list"
                  /\ Expected(params[2].body) = PyStr(<<"hello">>)
                  /\ ArgumentsOf(result.val[1])
                         = PyDict(<< [key |-> params[1].name, val |-> PyStr(<<"hello">>)] >>)

====
